---- MODULE Spec2Model ----
(***************************************************************************)
(* xcresulttool_openapi_generator.py: the transformation of an             *)
(* xcresulttool format description (a JSON document of type descriptors)   *)
(* into an OpenAPI document, and the command line run around it.           *)
(*                                                                         *)
(* Python values are modelled as follows.  A str is a TLA+ string.  A list *)
(* is a sequence.  A dict is a sequence of <<key, value>> pairs in         *)
(* insertion order (Python dicts keep insertion order; assigning to a key  *)
(* that is present keeps its place).  A value that may be None (the result *)
(* of dict.get) is <<>> for None and <<v>> for the value v.                *)
(***************************************************************************)
EXTENDS Integers, Sequences, FiniteSets, TLC

VARIABLES
    pc,                  \* position of the run (see the actions)
    run,                 \* number of the current invocation of main
    input,               \* text on the input stream: <<>> is no JSON, <<d>> encodes d
    out_kind,            \* "stdout" or "file": the outfile argument
    infile_open,         \* args.infile is an open stream
    outfile_open,        \* args.outfile is an open stream
    out_content,         \* text the output target holds
    xcrt_desc,           \* gen_openapi: the parsed document
    all_schemas,         \* gen_openapi: dict title -> schema
    idx,                 \* gen_openapi: position in xcrt_desc['types'] (1-based)
    xcrt_type,           \* schemaType: its argument t
    schemas,             \* schemaType: list of schemas
    properties,          \* schemaType: dict name -> property schema
    required_properties, \* schemaType: list of names
    pi,                  \* schemaType: position in t['properties'] (1-based)
    ret,                 \* schemaType: returned (title, schemas), <<>> before
    doc,                 \* gen_openapi's result, <<>> before
    prev_out,            \* what the previous invocation wrote, <<>> on the first
    error                \* the exception that ended the run, "" if none

vars == <<pc, run, input, out_kind, infile_open, outfile_open, out_content,
          xcrt_desc, all_schemas, idx, xcrt_type, schemas, properties,
          required_properties, pi, ret, doc, prev_out, error>>

-----------------------------------------------------------------------------
(* Bounds of the model *)

\* longest types sequence of an input document
MaxTypes == 2
\* longest properties sequence of a type descriptor given to schemaType alone
MaxProps == 2
\* invocations of main on the same input
MaxRuns == 2

-----------------------------------------------------------------------------
(* Python helpers *)

None == <<>>
Some(v) == <<v>>

\* truth value of `x` where x is None or a str: None and '' are false
Truthy(x) == x # None /\ x[1] # ""

\* k in d
DictHas(d, k) == \E n \in 1..Len(d) : d[n][1] = k

\* d[k], for k in d
DictGet(d, k) == d[CHOOSE n \in 1..Len(d) : d[n][1] = k][2]

\* d[k] = v
DictSet(d, k, v) ==
    IF DictHas(d, k)
    THEN [n \in 1..Len(d) |-> IF d[n][1] = k THEN <<k, v>> ELSE d[n]]
    ELSE Append(d, <<k, v>>)

\* list(d.keys())
DictKeys(d) == [n \in 1..Len(d) |-> d[n][1]]

\* list[::-1]
Reversed(l) == [n \in 1..Len(l) |-> l[Len(l) + 1 - n]]

-----------------------------------------------------------------------------
(* dataType: the schema of a scalar or a referenced type *)

Ref(name) == << <<"$ref", "#/components/schemas/" \o name>> >>

\* a dataType whose match also accepts the lower-case spelling 'bool'
dataType_AnyCase(t) ==
    CASE t = "Bool" \/ t = "bool" -> << <<"type", "boolean">> >>
      [] t = "Int"                -> << <<"type", "integer">> >>
      [] t = "Double"             -> << <<"type", "number">>, <<"format", "double">> >>
      [] t = "String"             -> << <<"type", "string">> >>
      [] t = "Date"               -> << <<"type", "string">>, <<"format", "date-time">> >>
      [] t = "SchemaSerializable" -> <<>>
      [] OTHER                    -> Ref(t)

dataType(t) ==
    CASE t = "Bool"               -> << <<"type", "boolean">> >>
      [] t = "Int"                -> << <<"type", "integer">> >>
      [] t = "Double"             -> << <<"type", "number">>, <<"format", "double">> >>
      [] t = "String"             -> << <<"type", "string">> >>
      [] t = "Date"               -> << <<"type", "string">>, <<"format", "date-time">> >>
      [] t = "SchemaSerializable" -> <<>>
      [] OTHER                    -> Ref(t)

-----------------------------------------------------------------------------
(* schemaType: the pieces of its body *)

\* kinds that produce no schema (line 99)
IsInlineKind(kind) == kind = "value" \/ kind = "array"

\* `if supertype:` (line 106)
HasSupertype(t) == Truthy(t.type.supertype)

\* the value stored for an Array property p (lines 119-122);
\* the first takes the items from the declared type instead of the wrapped type
ArraySchema_OfDeclared(p) == << <<"type", "array">>, <<"items", dataType(p.type)>> >>

ArraySchema(p) == << <<"type", "array">>, <<"items", dataType(p.wrappedType[1])>> >>

\* the assertion of the Optional branch (line 124)
OptionalAssert_WrappedOnly(prop) == Truthy(prop.wrappedType)

OptionalAssert(prop) == prop.isOptional /\ Truthy(prop.wrappedType)

\* required_properties.append(prop_name) (line 126)
RequiredAppend_Skip(required, name) == required

RequiredAppend(required, name) == Append(required, name)

\* the object schema appended last (lines 129-134)
ObjectSchema(kind, props, required) ==
    << <<"type", kind>>,
       <<"properties", props>>,
       <<"additionalProperties", FALSE>>,
       <<"required", required>> >>

-----------------------------------------------------------------------------
(* gen_openapi and openAPISpec: the pieces of their bodies *)

\* the order in which `for xcrt_type in xcrt_desc['types']` visits the list,
\* were the types held in a container without a stable order
TypesInOrder_Unstable(d) == IF run = 1 THEN d.types ELSE Reversed(d.types)

TypesInOrder(d) == d.types

\* whether an entry is stored for the list of schemas (lines 143-144);
\* the first forgets to skip the empty list
StoresEntry_Always(s) == TRUE

StoresEntry(s) == Len(s) # 0

\* what is stored under the title for a non-empty list of schemas (lines 145-148)
SchemaEntry_AlwaysAllOf(s) == << <<"allOf", s>> >>

SchemaEntry(s) == IF Len(s) = 1 THEN s[1] ELSE << <<"allOf", s>> >>

openAPISpec(openapi_version, title, version, signature, schemas_) ==
    << <<"openapi", openapi_version>>,
       <<"info", << <<"title", title>>,
                    <<"version", ToString(version[1]) \o "." \o ToString(version[2])>>,
                    <<"x-signature", signature>> >> >>,
       <<"components", << <<"schemas", schemas_>> >> >> >>

-----------------------------------------------------------------------------
(* json.dump with its default separators, for the shapes gen_openapi builds. *)
(* Names are plain ASCII without quotes or backslashes, so a string is      *)
(* written between quotes as it is.                                          *)

Quote(s) == "\"" \o s \o "\""

Sep(n) == IF n > 1 THEN ", " ELSE ""

RECURSIVE dumpsProperty(_), dumpsPropertyFrom(_, _)
dumpsProperty(p) == "{" \o dumpsPropertyFrom(p, 1) \o "}"

dumpsPropertyFrom(p, n) ==
    IF n > Len(p) THEN ""
    ELSE Sep(n) \o Quote(p[n][1]) \o ": "
         \o (IF p[n][1] = "items" THEN dumpsProperty(p[n][2]) ELSE Quote(p[n][2]))
         \o dumpsPropertyFrom(p, n + 1)

RECURSIVE dumpsPropertiesFrom(_, _)
dumpsPropertiesFrom(d, n) ==
    IF n > Len(d) THEN ""
    ELSE Sep(n) \o Quote(d[n][1]) \o ": " \o dumpsProperty(d[n][2])
         \o dumpsPropertiesFrom(d, n + 1)

RECURSIVE dumpsNamesFrom(_, _)
dumpsNamesFrom(l, n) ==
    IF n > Len(l) THEN "" ELSE Sep(n) \o Quote(l[n]) \o dumpsNamesFrom(l, n + 1)

dumpsObject(o) ==
    "{\"type\": " \o Quote(DictGet(o, "type"))
    \o ", \"properties\": {" \o dumpsPropertiesFrom(DictGet(o, "properties"), 1) \o "}"
    \o ", \"additionalProperties\": "
    \o (IF DictGet(o, "additionalProperties") THEN "true" ELSE "false")
    \o ", \"required\": [" \o dumpsNamesFrom(DictGet(o, "required"), 1) \o "]}"

dumpsNode(s) == IF DictHas(s, "$ref") THEN dumpsProperty(s) ELSE dumpsObject(s)

RECURSIVE dumpsNodesFrom(_, _)
dumpsNodesFrom(l, n) ==
    IF n > Len(l) THEN "" ELSE Sep(n) \o dumpsNode(l[n]) \o dumpsNodesFrom(l, n + 1)

dumpsEntry(e) ==
    IF DictHas(e, "allOf")
    THEN "{\"allOf\": [" \o dumpsNodesFrom(DictGet(e, "allOf"), 1) \o "]}"
    ELSE dumpsNode(e)

RECURSIVE dumpsSchemasFrom(_, _)
dumpsSchemasFrom(d, n) ==
    IF n > Len(d) THEN ""
    ELSE Sep(n) \o Quote(d[n][1]) \o ": " \o dumpsEntry(d[n][2])
         \o dumpsSchemasFrom(d, n + 1)

dumps(o) ==
    "{\"openapi\": " \o Quote(DictGet(o, "openapi"))
    \o ", \"info\": {" \o dumpsPropertyFrom(DictGet(o, "info"), 1) \o "}"
    \o ", \"components\": {\"schemas\": {"
    \o dumpsSchemasFrom(DictGet(DictGet(o, "components"), "schemas"), 1) \o "}}}"

-----------------------------------------------------------------------------
(* Input documents *)

TypeDesc(kind, name, supertype, props) ==
    [kind |-> kind, type |-> [name |-> name, supertype |-> supertype], properties |-> props]

Prop(name, type, wrappedType, isOptional) ==
    [name |-> name, type |-> type, wrappedType |-> wrappedType, isOptional |-> isOptional]

NoType == TypeDesc("", "", None, <<>>)

\* sequences over S of length at most n
RECURSIVE SeqsUpTo(_, _)
SeqsUpTo(S, n) ==
    IF n = 0 THEN {<<>>}
    ELSE LET shorter == SeqsUpTo(S, n - 1)
         IN  shorter \cup {Append(q, x) : q \in {r \in shorter : Len(r) = n - 1}, x \in S}

\* Descriptors of the documents given to main: the three kinds and one that is
\* none of them, two names, the three forms of supertype, properties that are
\* well formed and properties that are not.
DocNames == {"A", "B"}
DocSupertypes == {None, Some(""), Some("A")}
GoodProps ==
    <<Prop("a", "Optional", Some("Int"), TRUE), Prop("b", "Array", Some("B"), FALSE)>>
OptionalNotFlagged ==
    <<Prop("a", "String", None, FALSE), Prop("b", "Optional", Some("Date"), FALSE)>>
ArrayNotWrapped ==
    <<Prop("b", "Bool", None, TRUE), Prop("a", "Array", None, FALSE)>>
DocTypes ==
    {TypeDesc("value", "A", None, <<>>),
     TypeDesc("value", "B", None, <<>>),
     TypeDesc("array", "A", None, <<>>),
     TypeDesc("array", "B", None, <<>>),
     TypeDesc("enum", "A", None, <<>>),
     TypeDesc("object", "A", None, <<>>),
     TypeDesc("object", "B", None, OptionalNotFlagged),
     TypeDesc("object", "B", Some("A"), ArrayNotWrapped)}
    \cup {TypeDesc("object", n, s, GoodProps) : n \in DocNames, s \in DocSupertypes}

Document(types) ==
    [name |-> "X", version |-> [major |-> 3, minor |-> 14], signature |-> "abc",
     types |-> types]

Documents == {Document(ts) : ts \in SeqsUpTo(DocTypes, MaxTypes)}

\* what an output file holds before the run
PreviousContent == "previous"

\* Descriptors given to schemaType alone.  The deep ones: every sequence of at
\* most MaxProps properties over two names, the three branches, wrapped types
\* that are absent, a type name or a marker, and both values of isOptional.
DeepProps ==
    {Prop(n, "Array", w, o) :
        n \in {"a", "b"}, w \in {None, Some("Int"), Some("Optional")}, o \in BOOLEAN}
    \cup {Prop(n, "Optional", w, o) :
        n \in {"a", "b"}, w \in {None, Some("Foo"), Some("Array")}, o \in BOOLEAN}
    \cup {Prop(n, t, None, o) :
        n \in {"a", "b"}, t \in {"String", "Foo"}, o \in BOOLEAN}
DeepTypes ==
    {TypeDesc(k, "T", None, <<>>) : k \in {"value", "array", "enum"}}
    \cup {TypeDesc("object", "T", s, ps) :
            s \in {None, Some("Base")}, ps \in SeqsUpTo(DeepProps, MaxProps)}

\* The wide ones: one property whose type, or wrapped type, is one of many names:
\* the six built-in names, other spellings of them, the markers, other names.
TypeNameSamples ==
    {"Bool", "Int", "Double", "String", "Date", "SchemaSerializable",
     "bool", "BOOL", "int", "INT", "double", "string", "STRING", "date",
     "schemaSerializable", "Boolean", "Integer", "Float", "Int64", "Str",
     "DateTime", " Bool", "Bool ", "Array", "Optional", "array", "optional",
     "Foo", "ActionRecord", "A/B", ""}
WideTypes ==
    {TypeDesc("object", "T", None, <<Prop("a", t, None, FALSE)>>) :
        t \in TypeNameSamples \ {"Array", "Optional"}}
    \cup {TypeDesc("object", "T", None, <<Prop("a", "Array", Some(t), FALSE)>>) :
            t \in TypeNameSamples}
    \cup {TypeDesc("object", "T", None, <<Prop("a", "Optional", Some(t), TRUE)>>) :
            t \in TypeNameSamples}

TypeInputs == DeepTypes \cup WideTypes

-----------------------------------------------------------------------------
(* The run of main *)

Locals ==
    /\ xcrt_desc = Document(<<>>)
    /\ all_schemas = <<>>
    /\ idx = 1
    /\ xcrt_type = NoType
    /\ schemas = <<>>
    /\ properties = <<>>
    /\ required_properties = <<>>
    /\ pi = 1
    /\ ret = <<>>
    /\ doc = <<>>
    /\ error = ""

Init ==
    /\ pc = "main"
    /\ run = 1
    /\ input \in {<<>>} \cup {<<d>> : d \in Documents}
    /\ out_kind \in {"stdout", "file"}
    /\ infile_open = FALSE
    /\ outfile_open = FALSE
    /\ out_content = IF out_kind = "file" THEN PreviousContent ELSE ""
    /\ prev_out = <<>>
    /\ Locals

\* an uncaught exception: the traceback goes to stderr, nothing else happens
Raise(e) ==
    /\ pc' = "aborted"
    /\ error' = e

\* parser.parse_args(): argparse.FileType opens infile for reading and outfile
\* for writing while it parses; opening a file for writing creates or truncates it
MainParseArgs ==
    /\ pc = "main"
    /\ infile_open' = TRUE
    /\ outfile_open' = TRUE
    /\ out_content' = IF out_kind = "file" THEN "" ELSE out_content
    /\ pc' = "gen_load"
    /\ UNCHANGED <<run, input, out_kind, xcrt_desc, all_schemas, idx, xcrt_type,
                   schemas, properties, required_properties, pi, ret, doc,
                   prev_out, error>>

\* xcrt_desc = json.load(input); all_schemas = {}
GenLoad ==
    /\ pc = "gen_load"
    /\ IF input = <<>>
       THEN /\ Raise("JSONDecodeError")
            /\ UNCHANGED <<xcrt_desc, all_schemas, idx>>
       ELSE /\ xcrt_desc' = input[1]
            /\ all_schemas' = <<>>
            /\ idx' = 1
            /\ pc' = "gen_loop"
            /\ UNCHANGED error
    /\ UNCHANGED <<run, input, out_kind, infile_open, outfile_open, out_content,
                   xcrt_type, schemas, properties, required_properties, pi, ret,
                   doc, prev_out>>

\* for xcrt_type in xcrt_desc['types']: the call schemaType(xcrt_type)
GenNextType ==
    /\ pc = "gen_loop"
    /\ idx <= Len(TypesInOrder(xcrt_desc))
    /\ xcrt_type' = TypesInOrder(xcrt_desc)[idx]
    /\ pc' = "st_entry"
    /\ UNCHANGED <<run, input, out_kind, infile_open, outfile_open, out_content,
                   xcrt_desc, all_schemas, idx, schemas, properties,
                   required_properties, pi, ret, doc, prev_out, error>>

\* schemaType, kind 'value' or 'array': return (title, [])
SchemaTypeInline ==
    /\ pc = "st_entry"
    /\ IsInlineKind(xcrt_type.kind)
    /\ ret' = <<xcrt_type.type.name, <<>>>>
    /\ pc' = "gen_store"
    /\ UNCHANGED <<run, input, out_kind, infile_open, outfile_open, out_content,
                   xcrt_desc, all_schemas, idx, xcrt_type, schemas, properties,
                   required_properties, pi, doc, prev_out, error>>

\* schemaType, any other kind than 'object': assert kind == 'object' fails
SchemaTypeBadKind ==
    /\ pc = "st_entry"
    /\ ~IsInlineKind(xcrt_type.kind)
    /\ xcrt_type.kind # "object"
    /\ Raise("AssertionError")
    /\ UNCHANGED <<run, input, out_kind, infile_open, outfile_open, out_content,
                   xcrt_desc, all_schemas, idx, xcrt_type, schemas, properties,
                   required_properties, pi, ret, doc, prev_out>>

\* schemaType, kind 'object': the supertype reference, then the empty
\* properties and required_properties
SchemaTypeObject ==
    /\ pc = "st_entry"
    /\ ~IsInlineKind(xcrt_type.kind)
    /\ xcrt_type.kind = "object"
    /\ schemas' = IF HasSupertype(xcrt_type)
                  THEN <<Ref(xcrt_type.type.supertype[1])>>
                  ELSE <<>>
    /\ properties' = <<>>
    /\ required_properties' = <<>>
    /\ pi' = 1
    /\ pc' = "st_props"
    /\ UNCHANGED <<run, input, out_kind, infile_open, outfile_open, out_content,
                   xcrt_desc, all_schemas, idx, xcrt_type, ret, doc, prev_out,
                   error>>

\* the property the loop `for prop in t['properties']` is at
AtProp == pc = "st_props" /\ pi <= Len(xcrt_type.properties)
prop == xcrt_type.properties[pi]

\* prop_type == 'Array'
PropArray ==
    /\ AtProp
    /\ prop.type = "Array"
    /\ IF Truthy(prop.wrappedType)
       THEN /\ properties' = DictSet(properties, prop.name, ArraySchema(prop))
            /\ pi' = pi + 1
            /\ UNCHANGED <<pc, error>>
       ELSE /\ Raise("AssertionError")
            /\ UNCHANGED <<properties, pi>>
    /\ UNCHANGED <<run, input, out_kind, infile_open, outfile_open, out_content,
                   xcrt_desc, all_schemas, idx, xcrt_type, schemas,
                   required_properties, ret, doc, prev_out>>

\* prop_type == 'Optional'
PropOptional ==
    /\ AtProp
    /\ prop.type = "Optional"
    /\ IF OptionalAssert(prop)
       THEN /\ properties' = DictSet(properties, prop.name, dataType(prop.wrappedType[1]))
            /\ required_properties' = RequiredAppend(required_properties, prop.name)
            /\ pi' = pi + 1
            /\ UNCHANGED <<pc, error>>
       ELSE /\ Raise("AssertionError")
            /\ UNCHANGED <<properties, required_properties, pi>>
    /\ UNCHANGED <<run, input, out_kind, infile_open, outfile_open, out_content,
                   xcrt_desc, all_schemas, idx, xcrt_type, schemas, ret, doc,
                   prev_out>>

\* any other prop_type
PropOther ==
    /\ AtProp
    /\ prop.type \notin {"Array", "Optional"}
    /\ properties' = DictSet(properties, prop.name, dataType(prop.type))
    /\ pi' = pi + 1
    /\ UNCHANGED <<pc, run, input, out_kind, infile_open, outfile_open, out_content,
                   xcrt_desc, all_schemas, idx, xcrt_type, schemas,
                   required_properties, ret, doc, prev_out, error>>

\* after the loop: schemas.append({...}); return (title, schemas)
SchemaTypeReturn ==
    /\ pc = "st_props"
    /\ pi > Len(xcrt_type.properties)
    /\ schemas' = Append(schemas,
                         ObjectSchema(xcrt_type.kind, properties, required_properties))
    /\ ret' = <<xcrt_type.type.name, schemas'>>
    /\ pc' = "gen_store"
    /\ UNCHANGED <<run, input, out_kind, infile_open, outfile_open, out_content,
                   xcrt_desc, all_schemas, idx, xcrt_type, properties,
                   required_properties, pi, doc, prev_out, error>>

\* title, schemas = ...; the three cases on len(schemas)
GenStore ==
    /\ pc = "gen_store"
    /\ all_schemas' = IF StoresEntry(ret[2])
                      THEN DictSet(all_schemas, ret[1], SchemaEntry(ret[2]))
                      ELSE all_schemas
    /\ idx' = idx + 1
    /\ pc' = "gen_loop"
    /\ UNCHANGED <<run, input, out_kind, infile_open, outfile_open, out_content,
                   xcrt_desc, xcrt_type, schemas, properties, required_properties,
                   pi, ret, doc, prev_out, error>>

\* after the loop: return openAPISpec(...)
GenReturn ==
    /\ pc = "gen_loop"
    /\ idx > Len(TypesInOrder(xcrt_desc))
    /\ doc' = openAPISpec("3.1.0", xcrt_desc.name,
                          <<xcrt_desc.version.major, xcrt_desc.version.minor>>,
                          xcrt_desc.signature, all_schemas)
    /\ pc' = "main_dump"
    /\ UNCHANGED <<run, input, out_kind, infile_open, outfile_open, out_content,
                   xcrt_desc, all_schemas, idx, xcrt_type, schemas, properties,
                   required_properties, pi, ret, prev_out, error>>

\* json.dump(<the document>, args.outfile)
MainDump ==
    /\ pc = "main_dump"
    /\ out_content' = out_content \o dumps(doc)
    /\ pc' = "done"
    /\ UNCHANGED <<run, input, out_kind, infile_open, outfile_open, xcrt_desc,
                   all_schemas, idx, xcrt_type, schemas, properties,
                   required_properties, pi, ret, doc, prev_out, error>>

\* the interpreter exits, after main returned or with the traceback of the
\* exception: only now are the two streams closed
Exit ==
    /\ pc \in {"done", "aborted"}
    /\ infile_open' = FALSE
    /\ outfile_open' = FALSE
    /\ pc' = "exited"
    /\ UNCHANGED <<run, input, out_kind, out_content, xcrt_desc, all_schemas, idx,
                   xcrt_type, schemas, properties, required_properties, pi, ret,
                   doc, prev_out, error>>

\* the program is started again on the same input and the same arguments
Restart ==
    /\ pc = "exited"
    /\ run < MaxRuns
    /\ run' = run + 1
    /\ prev_out' = <<doc, error, out_content>>
    /\ out_content' = IF out_kind = "file" THEN out_content ELSE ""
    /\ pc' = "main"
    /\ xcrt_desc' = Document(<<>>)
    /\ all_schemas' = <<>>
    /\ idx' = 1
    /\ xcrt_type' = NoType
    /\ schemas' = <<>>
    /\ properties' = <<>>
    /\ required_properties' = <<>>
    /\ pi' = 1
    /\ ret' = <<>>
    /\ doc' = <<>>
    /\ error' = ""
    /\ UNCHANGED <<input, out_kind, infile_open, outfile_open>>

Next ==
    \/ MainParseArgs
    \/ GenLoad
    \/ GenNextType
    \/ SchemaTypeInline
    \/ SchemaTypeBadKind
    \/ SchemaTypeObject
    \/ PropArray
    \/ PropOptional
    \/ PropOther
    \/ SchemaTypeReturn
    \/ GenStore
    \/ GenReturn
    \/ MainDump
    \/ Exit
    \/ Restart

Spec == Init /\ [][Next]_vars

-----------------------------------------------------------------------------
(* schemaType alone, on one descriptor: from its call to its return *)

InitType ==
    /\ pc = "st_entry"
    /\ run = 1
    /\ input = <<>>
    /\ out_kind = "stdout"
    /\ infile_open = FALSE
    /\ outfile_open = FALSE
    /\ out_content = ""
    /\ prev_out = <<>>
    /\ xcrt_desc = Document(<<>>)
    /\ all_schemas = <<>>
    /\ idx = 1
    /\ xcrt_type \in TypeInputs
    /\ schemas = <<>>
    /\ properties = <<>>
    /\ required_properties = <<>>
    /\ pi = 1
    /\ ret = <<>>
    /\ doc = <<>>
    /\ error = ""

NextType ==
    \/ SchemaTypeInline
    \/ SchemaTypeBadKind
    \/ SchemaTypeObject
    \/ PropArray
    \/ PropOptional
    \/ PropOther
    \/ SchemaTypeReturn

SpecType == InitType /\ [][NextType]_vars

-----------------------------------------------------------------------------
(* Vocabulary of the properties *)

\* the types sequence of the document on the input stream
InputTypes == IF input = <<>> THEN <<>> ELSE input[1].types

\* components.schemas of the document gen_openapi returned
FinalSchemas == DictGet(DictGet(doc, "components"), "schemas")

\* s is an object schema: the four keys, and "type" is "object"
IsObjectSchema(s) ==
    /\ DictKeys(s) = <<"type", "properties", "additionalProperties", "required">>
    /\ DictGet(s, "type") = "object"
    /\ DictGet(s, "additionalProperties") = FALSE

\* gen_openapi has just stored (or skipped) the entry of the descriptor xcrt_type
JustStored == pc = "gen_loop" /\ idx > 1

\* the entry is the composition of the reference to supertype and an object schema
IsComposition(e, supertype) ==
    /\ DictKeys(e) = <<"allOf">>
    /\ Len(DictGet(e, "allOf")) = 2
    /\ DictGet(e, "allOf")[1] = << <<"$ref", "#/components/schemas/" \o supertype>> >>
    /\ IsObjectSchema(DictGet(e, "allOf")[2])

\* C1 as stated: with "has a supertype" read as "the supertype field is present",
\* the entry stored for an object descriptor is the composition exactly when the
\* descriptor has a supertype, and the bare object schema otherwise.
C1_AsStated ==
    (JustStored /\ xcrt_type.kind = "object") =>
        /\ DictHas(all_schemas, xcrt_type.type.name)
        /\ LET e == DictGet(all_schemas, xcrt_type.type.name)
               s == xcrt_type.type.supertype
           IN  IF s # None THEN IsComposition(e, s[1]) ELSE IsObjectSchema(e)

\* C1, amended: the entry gen_openapi stores for an object descriptor is the
\* composition [reference to the supertype, object schema] exactly when the
\* supertype is a non-empty string; when the supertype is absent, null or the
\* empty string the entry is the bare object schema, not wrapped in allOf.
C1_Entry ==
    (JustStored /\ xcrt_type.kind = "object") =>
        /\ DictHas(all_schemas, xcrt_type.type.name)
        /\ LET e == DictGet(all_schemas, xcrt_type.type.name)
               s == xcrt_type.type.supertype
           IN  IF s # None /\ s[1] # "" THEN IsComposition(e, s[1]) ELSE IsObjectSchema(e)

C1_Witness ==
    /\ JustStored
    /\ xcrt_type.kind = "object"
    /\ xcrt_type.type.supertype = Some("A")
    /\ DictHas(DictGet(all_schemas, xcrt_type.type.name), "allOf")

\* C2 as stated: the returned document has no key equal to the name of any
\* descriptor of kind value or array, whatever the other descriptors are.
C2_AsStated ==
    doc # <<>> =>
        \A n \in 1..Len(InputTypes) :
            InputTypes[n].kind \in {"value", "array"} =>
                ~DictHas(FinalSchemas, InputTypes[n].type.name)

\* C2, amended: a descriptor of kind value or array adds no entry of its own;
\* the returned document has a key equal to its name exactly when a descriptor
\* of kind object in the same document carries that name.
C2_NoEntry ==
    /\ (JustStored /\ xcrt_type.kind \in {"value", "array"}) =>
            \A k \in 1..Len(all_schemas) :
                \E m \in 1..(idx - 1) :
                    /\ xcrt_desc.types[m].kind = "object"
                    /\ xcrt_desc.types[m].type.name = all_schemas[k][1]
    /\ doc # <<>> =>
            \A n \in 1..Len(InputTypes) :
                InputTypes[n].kind \in {"value", "array"} =>
                    (DictHas(FinalSchemas, InputTypes[n].type.name)
                        <=> \E m \in 1..Len(InputTypes) :
                                /\ InputTypes[m].kind = "object"
                                /\ InputTypes[m].type.name = InputTypes[n].type.name)

C2_Witness ==
    /\ doc # <<>>
    /\ Len(InputTypes) = 2
    /\ InputTypes[1].kind = "object"
    /\ InputTypes[2].kind = "array"
    /\ InputTypes[1].type.name # InputTypes[2].type.name
    /\ DictKeys(FinalSchemas) = <<InputTypes[1].type.name>>

\* a property of an object descriptor that the claim C6 calls malformed
MalformedProp(p) ==
    \/ p.type \in {"Array", "Optional"} /\ p.wrappedType = None
    \/ p.type = "Optional" /\ ~p.isOptional

\* the descriptor at which the transformation meets malformed input
MalformedType(t) ==
    \/ t.kind \notin {"value", "array", "object"}
    \/ /\ t.kind = "object"
       /\ \E k \in 1..Len(t.properties) : MalformedProp(t.properties[k])

MalformedInput == \E n \in 1..Len(InputTypes) : MalformedType(InputTypes[n])

C9_AsStated ==
    /\ infile_open => pc = "gen_load"
    /\ outfile_open => doc # <<>>
    /\ (run = 1 /\ error # "" /\ out_kind = "file") => out_content = PreviousContent

-----------------------------------------------------------------------------
(* Properties of schemaType on one descriptor *)

\* the properties the loop has handled
Handled == SubSeq(xcrt_type.properties, 1, pi - 1)

\* the loop has just handled a property, and which
JustHandled == pc = "st_props" /\ pi > 1
last == xcrt_type.properties[pi - 1]

\* schemaType has returned the schemas of an object descriptor
Returned == pc = "gen_store" /\ xcrt_type.kind = "object"
returned_schema == ret[2][Len(ret[2])]

\* the names of the properties of ps whose declared type is "Optional", in order
RECURSIVE OptionalNames(_)
OptionalNames(ps) ==
    IF ps = <<>> THEN <<>>
    ELSE IF Head(ps).type = "Optional"
         THEN <<Head(ps).name>> \o OptionalNames(Tail(ps))
         ELSE OptionalNames(Tail(ps))

\* C3: the "required" list of the object schema is the list of the names of
\* the properties whose declared type is "Optional", one entry per such
\* property in the order of the input; a property of any other declared type
\* (Array, built-in or reference) contributes no entry, whatever its isOptional.
C3_Required ==
    /\ pc = "st_props" => required_properties = OptionalNames(Handled)
    /\ Returned =>
        DictGet(returned_schema, "required") = OptionalNames(xcrt_type.properties)

C3_Witness ==
    /\ Returned
    /\ Len(xcrt_type.properties) = 2
    /\ xcrt_type.properties[1].type = "Foo"
    /\ xcrt_type.properties[1].isOptional
    /\ xcrt_type.properties[2].type = "Optional"
    /\ DictGet(returned_schema, "required") = <<xcrt_type.properties[2].name>>

AppliedTo(p) == IF p.type \in {"Array", "Optional"} THEN p.wrappedType[1] ELSE p.type
ResultIn(p, s) == IF p.type = "Array" THEN DictGet(s, "items") ELSE s

\* C5: the schema dataType yields for a type name is the one of the table for
\* the six built-in names, spelled exactly so, and for every other name t the
\* reference {"$ref": "#/components/schemas/t"} carrying that very name.
C5_Table ==
    JustHandled =>
        LET t == AppliedTo(last)
            r == ResultIn(last, DictGet(properties, last.name))
        IN  /\ t = "Bool" => r = << <<"type", "boolean">> >>
            /\ t = "Int" => r = << <<"type", "integer">> >>
            /\ t = "Double" => r = << <<"type", "number">>, <<"format", "double">> >>
            /\ t = "String" => r = << <<"type", "string">> >>
            /\ t = "Date" => r = << <<"type", "string">>, <<"format", "date-time">> >>
            /\ t = "SchemaSerializable" => r = <<>>
            /\ t \notin {"Bool", "Int", "Double", "String", "Date", "SchemaSerializable"}
                  => r = << <<"$ref", "#/components/schemas/" \o t>> >>

C5_Witness ==
    /\ JustHandled
    /\ last.type = "bool"
    /\ DictGet(properties, last.name) = << <<"$ref", "#/components/schemas/bool">> >>

\* a schema that is the reference to a definition named Array or Optional
IsMarkerRef(s) ==
    \/ s = << <<"$ref", "#/components/schemas/Array">> >>
    \/ s = << <<"$ref", "#/components/schemas/Optional">> >>

\* the item schema of an array schema, the schema itself otherwise
ItemOf(s) == IF DictHas(s, "items") THEN DictGet(s, "items") ELSE s

\* C8 as stated: no property schema and no item schema is a reference to
\* #/components/schemas/Array or #/components/schemas/Optional.
C8_AsStated ==
    \A k \in 1..Len(properties) :
        ~IsMarkerRef(properties[k][2]) /\ ~IsMarkerRef(ItemOf(properties[k][2]))

\* C8, amended: dataType is never applied to the declared type of a property
\* when that is "Array" or "Optional"; it is applied to the wrappedType as it
\* is, so the schema (or item schema) stored for a property is a reference to
\* #/components/schemas/Array or #/components/schemas/Optional exactly when
\* the property's wrappedType is that literal string.
C8_Markers ==
    JustHandled =>
        LET s == DictGet(properties, last.name)
        IN  /\ IsMarkerRef(ItemOf(s)) <=>
                    /\ last.type \in {"Array", "Optional"}
                    /\ last.wrappedType \in {Some("Array"), Some("Optional")}
            /\ IsMarkerRef(ItemOf(s)) =>
                    ItemOf(s) = << <<"$ref", "#/components/schemas/" \o last.wrappedType[1]>> >>
            /\ last.type = "Array" => ~IsMarkerRef(s)

C8_Witness ==
    /\ JustHandled
    /\ last.type = "Optional"
    /\ last.wrappedType = Some("Array")
    /\ DictGet(properties, last.name) = << <<"$ref", "#/components/schemas/Array">> >>

\* C10 as stated: the "required" list of the returned object schema holds no
\* name twice, and every name in it is a key of the schema's "properties".
C10_AsStated ==
    Returned =>
        LET required == DictGet(returned_schema, "required")
        IN  /\ \A m, n \in 1..Len(required) : required[m] = required[n] => m = n
            /\ \A n \in 1..Len(required) :
                    DictHas(DictGet(returned_schema, "properties"), required[n])

====
